---- MODULE Spec2Model ----
(***************************************************************************)
(* Combat simulation engine of wh40k-10e: the dice expression evaluator    *)
(* (sim/models.py), the per-attack resolution sequence and the Monte Carlo *)
(* aggregation loop (sim/combat.py).                                       *)
(*                                                                         *)
(* Texts (dice expressions, weapon keywords) are sequences of one-letter   *)
(* strings, so that strip(), lower(), isdigit() and the regular expression *)
(* are computed letter by letter.  An Optional value is a sequence: None is *)
(* the empty sequence, a present value v is <<v>>.                         *)
(***************************************************************************)
EXTENDS Integers, Sequences, FiniteSets, TLC

None == <<>>
Some(v) == <<v>>
Val(x) == x[1]

\* ------------------------------------------------------------------ bounds
\* Longest dice text enumerated by the dice specification.
MaxLen == 5
\* Largest dice count and face count of an enumerated dice text.
MaxCount == 2
MaxFaces == 6
\* Number of times one DiceExpression is evaluated in the dice specification.
MaxCalls == 2
\* Largest iteration count passed to run_simulation.
MaxIterations == 2
\* Largest strength and toughness given to calculate_wound_target on its own.
MaxStat == 8
\* Largest armour and invulnerable value, and largest size of an armour
\* penetration value, given to the save phase on its own.
MaxArmour == 7
MaxAP == 10

\* ------------------------------------------------------------------- texts
Digits == {"0", "1", "2", "3", "4", "5", "6", "7", "8", "9"}

DigitVal(c) ==
    CASE c = "0" -> 0 [] c = "1" -> 1 [] c = "2" -> 2 [] c = "3" -> 3
      [] c = "4" -> 4 [] c = "5" -> 5 [] c = "6" -> 6 [] c = "7" -> 7
      [] c = "8" -> 8 [] c = "9" -> 9

\* str.isspace of one letter (the whitespace letters the model uses).
IsSpace(c) == c \in {" ", "\t", "\n"}

\* str.lower of one letter (the upper-case letters the model uses).
LowerChar(c) ==
    CASE c = "D" -> "d" [] c = "L" -> "l" [] c = "H" -> "h" [] c = "E" -> "e"
      [] c = "T" -> "t" [] c = "A" -> "a" [] c = "I" -> "i" [] c = "S" -> "s"
      [] OTHER -> c

Lower(s) == [i \in 1..Len(s) |-> LowerChar(s[i])]

RECURSIVE LStrip(_)
LStrip(s) == IF s # <<>> /\ IsSpace(Head(s)) THEN LStrip(Tail(s)) ELSE s

RECURSIVE RStrip(_)
RStrip(s) ==
    IF s # <<>> /\ IsSpace(s[Len(s)]) THEN RStrip(SubSeq(s, 1, Len(s) - 1)) ELSE s

Strip(s) == RStrip(LStrip(s))

\* str.isdigit: non-empty and every letter a digit.
IsDigit(s) == s # <<>> /\ \A i \in 1..Len(s) : s[i] \in Digits

\* int() of a digit string.
RECURSIVE ParseDigits(_)
ParseDigits(s) ==
    IF s = <<>> THEN 0
    ELSE 10 * ParseDigits(SubSeq(s, 1, Len(s) - 1)) + DigitVal(s[Len(s)])

\* int() of a "+ddd" / "-ddd" group.
ParseSigned(s) ==
    IF Head(s) = "-" THEN 0 - ParseDigits(Tail(s)) ELSE ParseDigits(Tail(s))

\* Position of the first letter of s that lies in set, 0 when there is none.
FirstIn(s, set) ==
    IF \E i \in 1..Len(s) : s[i] \in set
    THEN CHOOSE i \in 1..Len(s) : s[i] \in set /\ \A j \in 1..(i - 1) : s[j] \notin set
    ELSE 0

\* dice_pattern.match(cleaned): ^(?:(\d*)d(\d+))([+-]\d+)?$ on a lower-cased
\* text.  None when there is no match, else the three groups as texts (an
\* absent group is the empty text).
DicePattern(s) ==
    LET p == FirstIn(s, {"d"}) IN
    IF p = 0 THEN None
    ELSE LET cnt  == SubSeq(s, 1, p - 1)
             rest == SubSeq(s, p + 1, Len(s))
             q    == FirstIn(rest, {"+", "-"})
             fcs  == IF q = 0 THEN rest ELSE SubSeq(rest, 1, q - 1)
             md   == IF q = 0 THEN <<>> ELSE SubSeq(rest, q, Len(rest))
         IN IF /\ \A i \in 1..Len(cnt) : cnt[i] \in Digits
               /\ IsDigit(fcs)
               /\ (md = <<>> \/ IsDigit(Tail(md)))
            THEN Some([count |-> cnt, faces |-> fcs, modifier |-> md])
            ELSE None

\* The text lower-cased but not stripped.
Cleaned_no_strip(text) == Lower(text)

\* cleaned = self.raw.strip().lower()
Cleaned(text) == Lower(Strip(text))

\* The parse of DiceExpression.roll up to its loop: a literal, an error, or
\* the count, faces and modifier of a dice roll.
ParseDice(text) ==
    LET cleaned == Cleaned(text) IN
    IF IsDigit(cleaned) THEN [kind |-> "literal", value |-> ParseDigits(cleaned)]
    ELSE LET match == DicePattern(cleaned) IN
         IF match = None THEN [kind |-> "invalid"]
         ELSE LET count_str    == Val(match).count
                  modifier_str == Val(match).modifier
              IN [kind     |-> "dice",
                  count    |-> IF count_str # <<>> THEN ParseDigits(count_str) ELSE 1,
                  faces    |-> ParseDigits(Val(match).faces),
                  modifier |-> IF modifier_str # <<>> THEN ParseSigned(modifier_str) ELSE 0]


\* ----------------------------------------------------------------- state
VARIABLES
    \* the simulation's read-only inputs
    attacker, weapon, defender, modifiers, iterations,
    \* the outcomes resolve_attack returned, given to run_simulation's loop
    \* body when the accumulation is followed on its own
    outcomes,
    \* percentile's arguments when it is called on its own
    values, percent,
    \* run_simulation's accumulators, its control position and what it returns
    damage_rolls, total_kills, aggregate_stats, pc, result, error,
    \* resolve_attack's locals
    stats, total_damage, kills, attack_count, attack,
    success_hit, crit_hit, success_wound, crit_wound,
    raw_damage, unsaved, prevented, fnp_rolls, final_damage,
    \* the last d6 rolled, and the dice calls of the attack in progress
    roll, drawn,
    \* DiceExpression.roll evaluated on its own: the stored text, its control
    \* position, its locals, the random integers drawn, the calls made so far
    raw, dpc, count, faces, total, rolls, calls,
    \* the value a function called on its own returned
    ret

inputs == <<attacker, weapon, defender, modifiers, iterations, outcomes,
            values, percent>>
\* The inputs other than the weapon.
other_inputs == <<attacker, defender, modifiers, iterations, outcomes,
                  values, percent>>
run_vars == <<damage_rolls, total_kills, aggregate_stats, pc, result, error>>
attack_vars == <<stats, total_damage, kills, attack_count, attack,
                 success_hit, crit_hit, success_wound, crit_wound,
                 raw_damage, unsaved, prevented, fnp_rolls, final_damage,
                 roll, drawn>>
dice_vars == <<raw, dpc, count, faces, total, rolls, calls>>
vars == <<inputs, run_vars, attack_vars, dice_vars, ret>>

\* ------------------------------------------------------------ random source
\* A zero-based draw, as random.randrange(b) would make for a = 1.
randint_zero_based(a, b) == (a - 1)..(b - 1)

\* random.randint(a, b): an integer of a..b, both ends included; the range is
\* empty, and randint raises ValueError, when b < a.
randint(a, b) == a..b

\* roll_d6
D6 == randint(1, 6)

Max(a, b) == IF a >= b THEN a ELSE b
Min(a, b) == IF a <= b THEN a ELSE b

RECURSIVE SumSeq(_)
SumSeq(s) == IF s = <<>> THEN 0 ELSE Head(s) + SumSeq(Tail(s))

\* ------------------------------------------------- DiceExpression.roll, stepwise
\* The text replaced by its normalised form: self.raw = cleaned.
StoredText_normalised(text) == Lower(Strip(text))

\* self.raw after roll(): roll reads it into cleaned and assigns it nowhere.
StoredText(text) == text

\* Entry of roll: the literal branch returns, a text that does not match
\* raises, a dice text sets up the loop.
RollCall ==
    /\ dpc = "call"
    /\ LET p == ParseDice(raw) IN
       CASE p.kind = "literal" ->
              /\ ret' = Some(p.value)
              /\ dpc' = "returned"
              /\ UNCHANGED <<count, faces, total, error>>
         [] p.kind = "invalid" ->
              /\ error' = "Unsupported dice expression"
              /\ dpc' = "raised"
              /\ UNCHANGED <<count, faces, total, ret>>
         [] p.kind = "dice" ->
              /\ count' = p.count
              /\ faces' = p.faces
              /\ total' = p.modifier
              /\ dpc' = "loop"
              /\ UNCHANGED <<ret, error>>
    /\ calls' = calls + 1
    /\ rolls' = <<>>
    /\ raw' = StoredText(raw)
    /\ UNCHANGED <<inputs, damage_rolls, total_kills, aggregate_stats, pc,
                   result, attack_vars>>

\* One pass of the loop: total += random.randint(1, faces).  randint raises
\* ValueError on the empty range 1..0.
RollDraw ==
    /\ dpc = "loop"
    /\ Len(rolls) < count
    /\ \/ /\ \E r \in randint(1, faces) :
                /\ total' = total + r
                /\ rolls' = Append(rolls, r)
          /\ UNCHANGED <<dpc, error>>
       \/ /\ randint(1, faces) = {}
          /\ dpc' = "raised"
          /\ error' = "empty range for randrange"
          /\ UNCHANGED <<total, rolls>>
    /\ UNCHANGED <<raw, count, faces, calls, ret, inputs, damage_rolls, total_kills,
                   aggregate_stats, pc, result, attack_vars>>

\* return total
RollReturn ==
    /\ dpc = "loop"
    /\ Len(rolls) >= count
    /\ ret' = Some(total)
    /\ dpc' = "returned"
    /\ UNCHANGED <<raw, count, faces, total, rolls, calls, inputs, run_vars,
                   attack_vars>>

\* The same expression object is evaluated again.
RollAgain ==
    /\ dpc = "returned"
    /\ calls < MaxCalls
    /\ dpc' = "call"
    /\ ret' = None
    /\ UNCHANGED <<raw, count, faces, total, rolls, calls, inputs, run_vars,
                   attack_vars>>


\* ------------------------------------------- DiceExpression.roll, as one step
RECURSIVE DiceSums(_, _)
\* The sums n passes of the loop can add, each pass drawing from 1..f.
DiceSums(n, f) ==
    IF n <= 0 THEN {0}
    ELSE {s + r : s \in DiceSums(n - 1, f), r \in randint(1, f)}

\* A lenient evaluation: a text that does not parse counts as 0.
RollValues_lenient(text) ==
    LET p == ParseDice(text) IN
    CASE p.kind = "literal" -> {p.value}
      [] p.kind = "invalid" -> {0}
      [] p.kind = "dice" ->
           {p.modifier + s : s \in DiceSums(p.count, p.faces)}

\* Every value roll() can return on the text; empty when roll() raises.
RollValues(text) ==
    LET p == ParseDice(text) IN
    CASE p.kind = "literal" -> {p.value}
      [] p.kind = "invalid" -> {}
      [] p.kind = "dice" ->
           {p.modifier + s : s \in DiceSums(p.count, p.faces)}

RollRaises(text) == RollValues(text) = {}

\* ------------------------------------------------ Python's float arithmetic
\* A non-negative float below 2^10 is held exactly as a count of units of
\* 2^-60 in three limbs <<h, m, l>> of 20 bits: (h * 2^40 + m * 2^20 + l) units.
\* Every float percentile computes from integers below 2^10 and an integer
\* percent in 0..100 is a whole number of such units.
Limb == 1048576

\* The significand of a float: 53 bits.
SignificandBits == 53

\* Carries moved up so that the two low limbs are in 0..Limb-1.
FloatNorm(h, m, l) ==
    LET m0 == m + (l \div Limb)
    IN <<h + (m0 \div Limb), m0 % Limb, l % Limb>>

RECURSIVE BitLength(_)
BitLength(n) == IF n = 0 THEN 0 ELSE 1 + BitLength(n \div 2)

\* The number of significant bits of a count of units.
UnitBits(x) ==
    IF x[1] > 0 THEN 40 + BitLength(x[1])
    ELSE IF x[2] > 0 THEN 20 + BitLength(x[2])
    ELSE BitLength(x[3])

\* The float nearest to an exact value, ties to the even significand: x is
\* the exact value's whole units, sticky says a part below one unit was cut.
RoundNearestEven(x, sticky) ==
    LET drop == UnitBits(x) - SignificandBits IN
    IF drop <= 0 THEN x
    ELSE LET r    == 2 ^ drop
             low  == x[3] % r
             odd  == (x[3] \div r) % 2 = 1
         IN IF 2 * low > r \/ (2 * low = r /\ (sticky \/ odd))
            THEN FloatNorm(x[1], x[2], x[3] - low + r)
            ELSE <<x[1], x[2], x[3] - low>>

\* float(n) of a small non-negative integer
FloatOfInt(n) == <<n * Limb, 0, 0>>

\* a / b of two small non-negative integers, b > 0
FloatDivide(a, b) ==
    LET h  == (a * Limb) \div b
        r1 == (a * Limb) % b
        m  == (r1 * Limb) \div b
        r2 == (r1 * Limb) % b
        l  == (r2 * Limb) \div b
        r3 == (r2 * Limb) % b
    IN RoundNearestEven(<<h, m, l>>, r3 # 0)

\* n * x of a small non-negative integer and a float
FloatMul(n, x) == RoundNearestEven(FloatNorm(n * x[1], n * x[2], n * x[3]), FALSE)

\* x + y
FloatAdd(x, y) ==
    RoundNearestEven(FloatNorm(x[1] + y[1], x[2] + y[2], x[3] + y[3]), FALSE)

\* x - y, for x >= y
FloatSub(x, y) ==
    RoundNearestEven(FloatNorm(x[1] - y[1], x[2] - y[2], x[3] - y[3]), FALSE)

\* int(x)
FloatTrunc(x) == x[1] \div Limb

\* x <= y
FloatLeq(x, y) ==
    \/ x[1] < y[1]
    \/ x[1] = y[1] /\ x[2] < y[2]
    \/ x[1] = y[1] /\ x[2] = y[2] /\ x[3] <= y[3]

\* ------------------------------------------------------------- combat.py
ZeroStats == [hits |-> 0, crit_hits |-> 0, wounds |-> 0, crit_wounds |-> 0,
              failed_saves |-> 0]

\* Python truthiness of an Optional[int]: None and 0 are false.
Truthy(x) == x # None /\ Val(x) # 0

\* calculate_wound_target with its last comparison strict: half the
\* toughness exactly is no longer the hardest row.
calculate_wound_target_strict_half(strength, toughness) ==
    IF strength >= toughness * 2 THEN 2
    ELSE IF strength > toughness THEN 3
    ELSE IF strength = toughness THEN 4
    ELSE IF strength * 2 < toughness THEN 6
    ELSE 5

calculate_wound_target(strength, toughness) ==
    IF strength >= toughness * 2 THEN 2
    ELSE IF strength > toughness THEN 3
    ELSE IF strength = toughness THEN 4
    ELSE IF strength * 2 <= toughness THEN 6
    ELSE 5

\* effective_save clamped into 2..7: a save of 7 stays out of the die's reach.
EffectiveSave_clamp7(save, ap) ==
    LET armour_save == save.armour - ap
        with_invulnerable == IF Truthy(save.invulnerable)
                             THEN Min(armour_save, Val(save.invulnerable))
                             ELSE armour_save
    IN Max(2, Min(7, with_invulnerable))

\* effective_save of apply_save
EffectiveSave(save, ap) ==
    LET armour_save == save.armour - ap
        with_invulnerable == IF Truthy(save.invulnerable)
                             THEN Min(armour_save, Val(save.invulnerable))
                             ELSE armour_save
    IN Max(2, Min(6, with_invulnerable))

\* apply_save with its save roll given
apply_save(save, ap, damage, save_roll) ==
    IF save_roll >= EffectiveSave(save, ap) THEN 0 ELSE damage

LethalHits == <<"l", "e", "t", "h", "a", "l", " ", "h", "i", "t", "s">>

\* The keyword compared as stored, without lower().
HasLethalHits_case_sensitive(keywords) ==
    \E i \in 1..Len(keywords) : keywords[i] = LethalHits

\* any(k.lower() == "lethal hits" for k in weapon.keywords)
HasLethalHits(keywords) == \E i \in 1..Len(keywords) : Lower(keywords[i]) = LethalHits

\* What resolve_attack's locals hold before the function is entered.
NoTrial ==
    /\ stats = ZeroStats /\ total_damage = 0 /\ kills = 0
    /\ attack_count = 0 /\ attack = 0
    /\ success_hit = FALSE /\ crit_hit = FALSE
    /\ success_wound = FALSE /\ crit_wound = FALSE
    /\ raw_damage = 0 /\ unsaved = 0 /\ prevented = 0 /\ fnp_rolls = 0
    /\ final_damage = 0 /\ roll = 0 /\ drawn = <<>>

\* The per-attack locals as the loop body finds them (each is assigned before
\* it is read).
ClearAttack ==
    /\ success_hit' = FALSE /\ crit_hit' = FALSE
    /\ success_wound' = FALSE /\ crit_wound' = FALSE
    /\ raw_damage' = 0 /\ unsaved' = 0 /\ prevented' = 0 /\ fnp_rolls' = 0
    /\ final_damage' = 0 /\ roll' = 0 /\ drawn' = <<>>

attack_locals == <<success_hit, crit_hit, success_wound, crit_wound, raw_damage,
                   unsaved, prevented, fnp_rolls, final_damage, roll, drawn>>
accumulators == <<damage_rolls, total_kills, aggregate_stats, result>>

\* One trial more than the iteration count.
MoreTrials_inclusive(done, n) == done <= n

\* for _ in range(iterations): the loop has a next pass after `done` trials.
MoreTrials(done, n) == done < n

\* run_simulation's loop calls resolve_attack, which evaluates the attack
\* count once: attack_count = weapon.attacks.roll().
ResolveAttack ==
    /\ pc = "loop"
    /\ MoreTrials(Len(damage_rolls), iterations)
    /\ \/ /\ RollRaises(weapon.attacks)
          /\ pc' = "raised"
          /\ error' = "ValueError"
          /\ UNCHANGED attack_count
       \/ /\ \E n \in RollValues(weapon.attacks) : attack_count' = n
          /\ pc' = "attack"
          /\ UNCHANGED error
    /\ weapon' = [weapon EXCEPT !.attacks = StoredText(@)]
    /\ UNCHANGED <<other_inputs, accumulators, stats, total_damage, kills, attack,
                   attack_locals, dice_vars, ret>>

\* One pass more than the count.
MoreAttacks_inclusive(done, n) == done <= n

\* range(attack_count) has a next element after `done` passes.
MoreAttacks(done, n) == done < n

\* for _ in range(attack_count): the next attack starts, or the loop is over.
NextAttack ==
    /\ pc = "attack"
    /\ \/ /\ MoreAttacks(attack, attack_count)
          /\ attack' = attack + 1
          /\ pc' = "hit"
       \/ /\ ~MoreAttacks(attack, attack_count)
          /\ pc' = "return"
          /\ UNCHANGED attack
    /\ ClearAttack
    /\ UNCHANGED <<inputs, accumulators, error, stats, total_damage, kills,
                   attack_count, dice_vars, ret>>

\* The wound phase entered whatever the hit roll was.
PhaseAfterHit_unchecked(hit) == "wound"

\* if success_hit: the wound phase follows a hit, the next pass of the loop
\* a miss.
PhaseAfterHit(hit) == IF hit THEN "wound" ELSE "attack"

\* The critical hit counted outside the test of the hit.
HitTally_crit_on_miss(tally, hit, is_crit) ==
    [tally EXCEPT !.hits = IF hit THEN @ + 1 ELSE @,
                  !.crit_hits = IF is_crit THEN @ + 1 ELSE @]

\* if success_hit: stats.hits += 1; if crit_hit: stats.crit_hits += 1
HitTally(tally, hit, is_crit) ==
    IF hit
    THEN [tally EXCEPT !.hits = @ + 1,
                       !.crit_hits = IF is_crit THEN @ + 1 ELSE @]
    ELSE tally

\* roll_to_hit and the hit tally.
RollToHit ==
    /\ pc = "hit"
    /\ \E r \in D6 :
         LET is_crit  == r >= modifiers.crit_hit_threshold
             modified == r + modifiers.hit_modifier
             hit      == modified >= weapon.skill
         IN /\ roll' = r
            /\ success_hit' = hit
            /\ crit_hit' = is_crit
            /\ stats' = HitTally(stats, hit, is_crit)
            /\ pc' = PhaseAfterHit(hit)
    /\ drawn' = Append(drawn, "hit")
    /\ UNCHANGED <<inputs, accumulators, error, total_damage, kills, attack_count,
                   attack, success_wound, crit_wound, raw_damage, unsaved, prevented,
                   fnp_rolls, final_damage, dice_vars, ret>>

\* The wound phase: an automatic critical wound, or roll_to_wound; then the
\* wound tally.
Wound ==
    /\ pc = "wound"
    /\ LET auto_wound == crit_hit /\ HasLethalHits(weapon.keywords) IN
       \/ /\ auto_wound
          /\ success_wound' = TRUE
          /\ crit_wound' = TRUE
          /\ stats' = [stats EXCEPT !.wounds = @ + 1, !.crit_wounds = @ + 1]
          /\ pc' = "damage"
          /\ UNCHANGED <<roll, drawn>>
       \/ /\ ~auto_wound
          /\ \E r \in D6 :
               LET target   == calculate_wound_target(weapon.strength, defender.toughness)
                   is_crit  == r >= modifiers.crit_wound_threshold
                   modified == r + modifiers.wound_modifier
                   wounded  == modified >= target
               IN /\ roll' = r
                  /\ success_wound' = wounded
                  /\ crit_wound' = is_crit
                  /\ stats' = IF wounded
                              THEN [stats EXCEPT !.wounds = @ + 1,
                                                 !.crit_wounds = IF is_crit THEN @ + 1 ELSE @]
                              ELSE stats
                  /\ pc' = IF wounded THEN "damage" ELSE "attack"
          /\ drawn' = Append(drawn, "wound")
    /\ UNCHANGED <<inputs, accumulators, error, total_damage, kills, attack_count,
                   attack, success_hit, crit_hit, raw_damage, unsaved, prevented,
                   fnp_rolls, final_damage, dice_vars, ret>>

\* The modified damage taken as it is.
ClampDamage_unclamped(damage) == damage

\* max(1, ...) of the modified damage
ClampDamage(damage) == Max(1, damage)

\* raw_damage = max(1, weapon.damage.roll() + modifiers.damage_modifier)
RollDamage ==
    /\ pc = "damage"
    /\ \/ /\ RollRaises(weapon.damage)
          /\ pc' = "raised"
          /\ error' = "ValueError"
          /\ UNCHANGED raw_damage
       \/ /\ \E d \in RollValues(weapon.damage) :
                raw_damage' = ClampDamage(d + modifiers.damage_modifier)
          /\ pc' = "save"
          /\ UNCHANGED error
    /\ drawn' = Append(drawn, "damage")
    /\ weapon' = [weapon EXCEPT !.damage = StoredText(@)]
    /\ UNCHANGED <<other_inputs, accumulators, stats, total_damage, kills, attack_count,
                   attack, success_hit, crit_hit, success_wound, crit_wound, unsaved,
                   prevented, fnp_rolls, final_damage, roll, dice_vars, ret>>

\* Every save roll counted, failed or not.
SaveTally_every_roll(tally, unsaved_damage) ==
    [tally EXCEPT !.failed_saves = @ + 1]

\* if unsaved: stats.failed_saves += 1
SaveTally(tally, unsaved_damage) ==
    IF unsaved_damage # 0 THEN [tally EXCEPT !.failed_saves = @ + 1] ELSE tally

\* unsaved = apply_save(defender.save, adjusted_ap, raw_damage) and the
\* failed-save tally.
ApplySave ==
    /\ pc = "save"
    /\ \E r \in D6 :
         LET adjusted_ap == weapon.ap + modifiers.ap_modifier
             u == apply_save(defender.save, adjusted_ap, raw_damage, r)
         IN /\ roll' = r
            /\ unsaved' = u
            /\ stats' = SaveTally(stats, u)
            /\ pc' = IF u # 0 THEN "fnp" ELSE "attack"
    /\ drawn' = Append(drawn, "save")
    /\ UNCHANGED <<inputs, accumulators, error, total_damage, kills, attack_count,
                   attack, success_hit, crit_hit, success_wound, crit_wound, raw_damage,
                   prevented, fnp_rolls, final_damage, dice_vars, ret>>

\* A point prevented only by a die above the threshold.
FnpPrevents_strict(die, threshold) == die > threshold

\* if roll_d6() >= feel_no_pain
FnpPrevents(die, threshold) == die >= threshold

\* apply_feel_no_pain: no threshold, one die of the loop, or the return.
FeelNoPain ==
    /\ pc = "fnp"
    /\ \/ /\ ~Truthy(defender.save.feel_no_pain)
          /\ final_damage' = unsaved
          /\ pc' = "tally"
          /\ UNCHANGED <<prevented, fnp_rolls, roll, drawn>>
       \/ /\ Truthy(defender.save.feel_no_pain)
          /\ fnp_rolls < unsaved
          /\ \E r \in D6 :
                /\ roll' = r
                /\ prevented' = IF FnpPrevents(r, Val(defender.save.feel_no_pain))
                                THEN prevented + 1 ELSE prevented
          /\ fnp_rolls' = fnp_rolls + 1
          /\ drawn' = Append(drawn, "fnp")
          /\ UNCHANGED <<final_damage, pc>>
       \/ /\ Truthy(defender.save.feel_no_pain)
          /\ fnp_rolls >= unsaved
          /\ final_damage' = unsaved - prevented
          /\ pc' = "tally"
          /\ UNCHANGED <<prevented, fnp_rolls, roll, drawn>>
    /\ UNCHANGED <<inputs, accumulators, error, stats, total_damage, kills,
                   attack_count, attack, success_hit, crit_hit, success_wound,
                   crit_wound, raw_damage, unsaved, dice_vars, ret>>

\* The kill check with a strict comparison.
KillThresholdMet_strict(damage, wounds) == damage > wounds

\* if final_damage >= defender.wounds
KillThresholdMet(damage, wounds) == damage >= wounds

\* total_damage += final_damage and the kill check.
Tally ==
    /\ pc = "tally"
    /\ total_damage' = total_damage + final_damage
    /\ kills' = IF KillThresholdMet(final_damage, defender.wounds)
                THEN kills + 1 ELSE kills
    /\ pc' = "attack"
    /\ UNCHANGED <<inputs, accumulators, error, stats, attack_count, attack,
                   attack_locals, dice_vars, ret>>

\* Every kill of the trial counted.
TrialKill_uncapped(outcome_kills) == outcome_kills

\* min(outcome.kills, 1)
TrialKill(outcome_kills) == Min(outcome_kills, 1)

\* The newest trial put first: damage_rolls.insert(0, outcome.damage).
AppendDamage_prepend(rolls_so_far, damage) == <<damage>> \o rolls_so_far

\* damage_rolls.append(outcome.damage)
AppendDamage(rolls_so_far, damage) == Append(rolls_so_far, damage)

\* The larger of the two counters kept, field by field.
AddStats_max(aggregate, trial) ==
    [hits         |-> Max(aggregate.hits, trial.hits),
     crit_hits    |-> Max(aggregate.crit_hits, trial.crit_hits),
     wounds       |-> Max(aggregate.wounds, trial.wounds),
     crit_wounds  |-> Max(aggregate.crit_wounds, trial.crit_wounds),
     failed_saves |-> Max(aggregate.failed_saves, trial.failed_saves)]

\* aggregate_stats.<field> += outcome.stats.<field>, for the five fields
AddStats(aggregate, trial) ==
    [hits         |-> aggregate.hits + trial.hits,
     crit_hits    |-> aggregate.crit_hits + trial.crit_hits,
     wounds       |-> aggregate.wounds + trial.wounds,
     crit_wounds  |-> aggregate.crit_wounds + trial.crit_wounds,
     failed_saves |-> aggregate.failed_saves + trial.failed_saves]

\* One pass of run_simulation's loop body over the outcome of a trial: the
\* three accumulators after it.
Accumulate(acc, outcome) ==
    [damage_rolls    |-> AppendDamage(acc.damage_rolls, outcome.damage),
     total_kills     |-> acc.total_kills + TrialKill(outcome.kills),
     aggregate_stats |-> AddStats(acc.aggregate_stats, outcome.stats)]

\* The accumulators as run_simulation holds them.
Accumulators ==
    [damage_rolls    |-> damage_rolls,
     total_kills     |-> total_kills,
     aggregate_stats |-> aggregate_stats]

\* The accumulators before the first trial.
EmptyAccumulators ==
    [damage_rolls |-> <<>>, total_kills |-> 0, aggregate_stats |-> ZeroStats]

\* resolve_attack returns its outcome and run_simulation's loop body adds it
\* to the accumulators.
Aggregate ==
    /\ pc = "return"
    /\ LET outcome == [damage |-> total_damage, kills |-> kills, stats |-> stats]
           after == Accumulate(Accumulators, outcome)
       IN /\ damage_rolls' = after.damage_rolls
          /\ total_kills' = after.total_kills
          /\ aggregate_stats' = after.aggregate_stats
    /\ stats' = ZeroStats /\ total_damage' = 0 /\ kills' = 0
    /\ attack_count' = 0 /\ attack' = 0
    /\ pc' = "loop"
    /\ UNCHANGED <<inputs, result, error, attack_locals, dice_vars, ret>>

\* return SimulationResult(...)
Finish ==
    /\ pc = "loop"
    /\ ~MoreTrials(Len(damage_rolls), iterations)
    /\ result' = Some(
                 [attacker            |-> attacker.name,
                  defender            |-> defender.name,
                  weapon              |-> weapon.name,
                  iterations          |-> iterations,
                  damage_distribution |-> damage_rolls,
                  kills               |-> total_kills,
                  stats               |-> aggregate_stats])
    /\ pc' = "done"
    /\ UNCHANGED <<inputs, damage_rolls, total_kills, aggregate_stats, error,
                   attack_vars, dice_vars, ret>>

\* A division that answers 0.0 when the divisor is 0.
TrueDivide_guarded(a, b) ==
    IF b = 0 THEN Some(FloatOfInt(0)) ELSE Some(FloatDivide(a, b))

\* a / b of two non-negative integers: the float quotient, or nothing when
\* b is 0 and Python raises ZeroDivisionError.
TrueDivide(a, b) == IF b = 0 THEN None ELSE Some(FloatDivide(a, b))

\* The caller reads a derived metric of the returned result: the quotient
\* is returned, or ZeroDivisionError is raised.
ReadMetric(name, quotient) ==
    /\ pc = "done"
    /\ pc' = name
    /\ IF quotient = None
       THEN error' = "ZeroDivisionError" /\ UNCHANGED ret
       ELSE ret' = quotient /\ UNCHANGED error
    /\ UNCHANGED <<inputs, accumulators, attack_vars, dice_vars>>

\* SimulationResult.average_damage: sum(damage_distribution) / iterations
AverageDamage ==
    ReadMetric("average_damage",
               TrueDivide(SumSeq(Val(result).damage_distribution),
                          Val(result).iterations))

\* SimulationResult.kill_probability: kills / iterations
KillProbability ==
    ReadMetric("kill_probability",
               TrueDivide(Val(result).kills, Val(result).iterations))


\* ----------------------------------------------------------------- inputs
\* The demonstration profiles of fallback_units.
DemoAttacker == [name |-> "Demo Captain"]
DemoWeapon ==
    [name |-> "Tempest Blade", attacks |-> <<"6">>, skill |-> 2, strength |-> 5,
     ap |-> -2, damage |-> <<"2">>,
     keywords |-> << <<"L", "e", "t", "h", "a", "l", " ", "H", "i", "t", "s">> >>]
DemoDefender ==
    [name |-> "Demo Termagant", toughness |-> 3, wounds |-> 1,
     save |-> [armour |-> 5, invulnerable |-> None, feel_no_pain |-> None]]
\* AttackModifiers()
DefaultModifiers ==
    [hit_modifier |-> 0, wound_modifier |-> 0, ap_modifier |-> 0,
     damage_modifier |-> 0, crit_hit_threshold |-> 6, crit_wound_threshold |-> 6]

\* Attack-count texts: two attacks; -1, 0 or 1 attacks; not a dice text.
AttackTexts == {<<"2">>, <<" ", "D", "3", "-", "2">>, <<"2", "d">>}
\* Damage texts: 2; 1 or 2; -1 or 0; not a dice text.
DamageTexts == {<<"2">>, <<"d", "2">>, <<"D", "2", "-", "2">>, <<"d", "+", "1">>}
KeywordLists ==
    { <<>>,
      << <<"L", "e", "t", "h", "a", "l", " ", "H", "i", "t", "s">> >>,
      << <<"A", "s", "s", "a", "i", "l">>,
         <<"L", "E", "T", "H", "A", "L", " ", "H", "I", "T", "S">> >>,
      << <<"l", "e", "t", "h", "a", "l", " ", "h", "i", "t">> >> }
Skills == {3, 6}
Strengths == {2, 4, 8}
Toughnesses == {4}
WoundsValues == {1, 2}
SaveProfiles ==
    { [armour |-> 3, invulnerable |-> None, feel_no_pain |-> None],
      [armour |-> 3, invulnerable |-> None, feel_no_pain |-> Some(5)],
      [armour |-> 7, invulnerable |-> Some(4), feel_no_pain |-> None] }
ModifierSets ==
    { DefaultModifiers,
      [hit_modifier |-> -1, wound_modifier |-> -1, ap_modifier |-> -1,
       damage_modifier |-> -1, crit_hit_threshold |-> 6, crit_wound_threshold |-> 6],
      [hit_modifier |-> 1, wound_modifier |-> 1, ap_modifier |-> 0,
       damage_modifier |-> 1, crit_hit_threshold |-> 5, crit_wound_threshold |-> 5] }

Weapons ==
    { [name |-> "Tempest Blade", attacks |-> a, skill |-> sk, strength |-> st,
       ap |-> -1, damage |-> d, keywords |-> kw] :
      a \in AttackTexts, sk \in Skills, st \in Strengths, d \in DamageTexts,
      kw \in KeywordLists }
Defenders ==
    { [name |-> "Demo Termagant", toughness |-> t, wounds |-> w, save |-> sv] :
      t \in Toughnesses, w \in WoundsValues, sv \in SaveProfiles }

\* Nothing of DiceExpression.roll's own evaluation is in progress.
DiceIdle ==
    /\ raw = <<>> /\ dpc = "idle" /\ count = 0 /\ faces = 0 /\ total = 0
    /\ rolls = <<>> /\ calls = 0

\* run_simulation entered: empty accumulators, nothing returned or raised.
RunEntered ==
    /\ damage_rolls = <<>> /\ total_kills = 0 /\ aggregate_stats = ZeroStats
    /\ result = None /\ error = "None"

\* The weapons and defenders of whole runs.
RunWeapons ==
    { [name |-> "Tempest Blade", attacks |-> a, skill |-> 3, strength |-> 4,
       ap |-> -1, damage |-> d, keywords |-> DemoWeapon.keywords] :
      a \in {<<"2">>, <<"2", "d">>}, d \in {<<"2">>, <<"d", "+", "1">>} }
RunDefenders ==
    { [name |-> "Demo Termagant", toughness |-> 4, wounds |-> 2, save |-> sv] :
      sv \in { [armour |-> 3, invulnerable |-> None, feel_no_pain |-> None],
               [armour |-> 3, invulnerable |-> None, feel_no_pain |-> Some(5)] } }

\* run_simulation(attacker, weapon, defender, modifiers, iterations) entered.
Init ==
    /\ attacker = DemoAttacker
    /\ weapon \in RunWeapons
    /\ defender \in RunDefenders
    /\ modifiers = DefaultModifiers
    /\ iterations \in 0..MaxIterations
    /\ outcomes = <<>> /\ values = <<>> /\ percent = 0
    /\ pc = "loop"
    /\ RunEntered /\ NoTrial /\ DiceIdle
    /\ ret = None

\* One call of resolve_attack through run_simulation: a single trial.
InitTrial ==
    /\ attacker = DemoAttacker
    /\ weapon \in Weapons
    /\ defender \in Defenders
    /\ modifiers \in ModifierSets
    /\ iterations = 1
    /\ outcomes = <<>> /\ values = <<>> /\ percent = 0
    /\ pc = "loop"
    /\ RunEntered /\ NoTrial /\ DiceIdle
    /\ ret = None

Next ==
    \/ ResolveAttack
    \/ NextAttack
    \/ RollToHit
    \/ Wound
    \/ RollDamage
    \/ ApplySave
    \/ FeelNoPain
    \/ Tally
    \/ Aggregate
    \/ Finish
    \/ AverageDamage
    \/ KillProbability

Spec == Init /\ [][Next]_vars

SpecTrial == InitTrial /\ [][Next]_vars

\* Whole runs whose dice texts are all valid: two attacks, or D3-2 attacks
\* (-1, 0 or 1), of damage 2. The two-attack weapon meets the defender
\* without feel no pain, the other weapon both defenders.
ValidRunWeapons ==
    { [name |-> "Tempest Blade", attacks |-> a, skill |-> 3, strength |-> 4,
       ap |-> -1, damage |-> <<"2">>, keywords |-> DemoWeapon.keywords] :
      a \in {<<"2">>, <<" ", "D", "3", "-", "2">>} }

InitValid ==
    /\ attacker = DemoAttacker
    /\ weapon \in ValidRunWeapons
    /\ defender \in RunDefenders
    /\ weapon.attacks = <<"2">> => ~Truthy(defender.save.feel_no_pain)
    /\ modifiers = DefaultModifiers
    /\ iterations \in 0..MaxIterations
    /\ outcomes = <<>> /\ values = <<>> /\ percent = 0
    /\ pc = "loop"
    /\ RunEntered /\ NoTrial /\ DiceIdle
    /\ ret = None

SpecValid == InitValid /\ [][Next]_vars


\* -------------------------------------------- DiceExpression.roll on its own
\* The simulation is not running.
SimIdle ==
    /\ attacker = DemoAttacker /\ weapon = DemoWeapon /\ defender = DemoDefender
    /\ modifiers = DefaultModifiers /\ iterations = 0
    /\ outcomes = <<>> /\ values = <<>> /\ percent = 0
    /\ pc = "idle"
    /\ RunEntered /\ NoTrial

Alphabet == {" ", "0", "1", "2", "6", "d", "D", "+", "-"}

\* Every text of at most MaxLen letters whose dice count and face count, when
\* it is a dice text, are within MaxCount and MaxFaces.
DiceTexts ==
    { t \in UNION { [1..n -> Alphabet] : n \in 0..MaxLen } :
        LET p == ParseDice(t) IN
        p.kind = "dice" => p.count <= MaxCount /\ p.faces <= MaxFaces }

InitDice ==
    /\ SimIdle
    /\ raw \in DiceTexts
    /\ dpc = "call" /\ count = 0 /\ faces = 0 /\ total = 0 /\ rolls = <<>>
    /\ calls = 0
    /\ ret = None

NextDice == RollCall \/ RollDraw \/ RollReturn \/ RollAgain

SpecDice == InitDice /\ [][NextDice]_vars

\* ------------------------------------- calculate_wound_target on its own
InitWoundTarget ==
    /\ attacker = DemoAttacker
    /\ \E s \in 0..MaxStat : weapon = [DemoWeapon EXCEPT !.strength = s]
    /\ \E t \in 0..MaxStat : defender = [DemoDefender EXCEPT !.toughness = t]
    /\ modifiers = DefaultModifiers /\ iterations = 0
    /\ outcomes = <<>> /\ values = <<>> /\ percent = 0
    /\ pc = "call"
    /\ RunEntered /\ NoTrial /\ DiceIdle
    /\ ret = None

CallWoundTarget ==
    /\ pc = "call"
    /\ ret' = Some(calculate_wound_target(weapon.strength, defender.toughness))
    /\ pc' = "returned"
    /\ UNCHANGED <<inputs, accumulators, error, attack_vars, dice_vars>>

SpecWoundTarget == InitWoundTarget /\ [][CallWoundTarget]_vars

\* ------------------------------------------------ the save phase on its own
\* An attack of a one-attack trial that has hit and wounded and whose damage
\* has been evaluated: resolve_attack is about to call apply_save.
InitSave ==
    /\ attacker = DemoAttacker
    /\ \E a \in (0 - MaxAP)..MaxAP, d \in {<<"1">>, <<"2">>} :
         weapon = [DemoWeapon EXCEPT !.attacks = <<"1">>, !.ap = a, !.damage = d]
    /\ \E ar \in 1..MaxArmour, inv \in {None} \cup {Some(v) : v \in 1..MaxArmour} :
         defender = [DemoDefender EXCEPT !.save.armour = ar, !.save.invulnerable = inv]
    /\ \E m \in {-1, 0, 1} : modifiers = [DefaultModifiers EXCEPT !.ap_modifier = m]
    /\ iterations = 1
    /\ outcomes = <<>> /\ values = <<>> /\ percent = 0
    /\ pc = "save"
    /\ RunEntered /\ DiceIdle
    /\ stats = [ZeroStats EXCEPT !.hits = 1, !.wounds = 1]
    /\ total_damage = 0 /\ kills = 0 /\ attack_count = 1 /\ attack = 1
    /\ success_hit = TRUE /\ crit_hit = FALSE
    /\ success_wound = TRUE /\ crit_wound = FALSE
    /\ raw_damage \in RollValues(weapon.damage)
    /\ unsaved = 0 /\ prevented = 0 /\ fnp_rolls = 0 /\ final_damage = 0
    /\ roll = 4 /\ drawn = <<"hit", "wound", "damage">>
    /\ ret = None

SpecSave == InitSave /\ [][ApplySave]_vars


\* ------------------------------------- run_simulation's loop on its own
MaxTrials == 3

\* Outcomes resolve_attack can return: nothing hit; one kill out of two hits;
\* two kills; a wounding attack reduced below the target's wounds; a failed
\* save that did not kill.
TrialOutcomes ==
    { [damage |-> 0, kills |-> 0, stats |-> ZeroStats],
      [damage |-> 2, kills |-> 1,
       stats |-> [hits |-> 2, crit_hits |-> 1, wounds |-> 1, crit_wounds |-> 0,
                  failed_saves |-> 1]],
      [damage |-> 4, kills |-> 2,
       stats |-> [hits |-> 2, crit_hits |-> 0, wounds |-> 2, crit_wounds |-> 1,
                  failed_saves |-> 2]],
      [damage |-> 1, kills |-> 0,
       stats |-> [hits |-> 1, crit_hits |-> 1, wounds |-> 1, crit_wounds |-> 1,
                  failed_saves |-> 1]],
      [damage |-> 2, kills |-> 0,
       stats |-> [hits |-> 2, crit_hits |-> 0, wounds |-> 2, crit_wounds |-> 0,
                  failed_saves |-> 1]] }

RECURSIVE RunLoop(_)
\* run_simulation's loop over the outcomes of its trials, from the empty
\* accumulators.
RunLoop(trial_outcomes) ==
    IF trial_outcomes = <<>> THEN EmptyAccumulators
    ELSE LET n == Len(trial_outcomes) IN
         Accumulate(RunLoop(SubSeq(trial_outcomes, 1, n - 1)), trial_outcomes[n])

\* A run of Len(outcomes) trials whose outcomes are given.
InitReduce ==
    /\ attacker = DemoAttacker /\ weapon = DemoWeapon /\ defender = DemoDefender
    /\ modifiers = DefaultModifiers
    /\ outcomes \in UNION { [1..n -> TrialOutcomes] : n \in 0..MaxTrials }
    /\ iterations = Len(outcomes)
    /\ values = <<>> /\ percent = 0
    /\ pc = "accumulate"
    /\ RunEntered /\ NoTrial /\ DiceIdle
    /\ ret = None

\* One pass of the loop body over the outcome of the next trial.
AccumulateOutcome ==
    /\ pc = "accumulate"
    /\ Len(damage_rolls) < iterations
    /\ LET after == Accumulate(Accumulators, outcomes[Len(damage_rolls) + 1])
       IN /\ damage_rolls' = after.damage_rolls
          /\ total_kills' = after.total_kills
          /\ aggregate_stats' = after.aggregate_stats
    /\ UNCHANGED <<inputs, pc, result, error, attack_vars, dice_vars, ret>>

SpecReduce == InitReduce /\ [][AccumulateOutcome]_vars


\* ------------------------------------------------------------- percentile
RECURSIVE Insert(_, _)
\* v put before the first larger element of an ascending sequence.
Insert(v, ascending) ==
    IF ascending = <<>> THEN <<v>>
    ELSE IF v <= Head(ascending) THEN <<v>> \o ascending
    ELSE <<Head(ascending)>> \o Insert(v, Tail(ascending))

RECURSIVE sorted(_)
\* sorted(values)
sorted(s) == IF s = <<>> THEN <<>> ELSE Insert(Head(s), sorted(Tail(s)))

\* percentile(values, percent); ordered[i + 1] is Python's ordered[i].
percentile(vals, pct) ==
    LET ordered == sorted(vals) IN
    IF ordered = <<>> THEN FloatOfInt(0)
    ELSE LET index  == FloatMul(Len(ordered) - 1, FloatDivide(pct, 100))
             lower  == FloatTrunc(index)
             upper  == Min(lower + 1, Len(ordered) - 1)
             weight == FloatSub(index, FloatOfInt(lower))
         IN FloatAdd(FloatMul(ordered[lower + 1], FloatSub(FloatOfInt(1), weight)),
                     FloatMul(ordered[upper + 1], weight))

MaxValues == 3
MaxValue == 5

\* The percents tried: the ends, the median, and percents whose hundredth
\* is not a binary fraction.
Percents == {0, 1, 20, 25, 50, 70, 100}

\* percentile is about to be called on a sequence of at most MaxValues
\* integers of 1..MaxValue, or on [1, 2, 3, 4, 5].
InitPercentile ==
    /\ attacker = DemoAttacker /\ weapon = DemoWeapon /\ defender = DemoDefender
    /\ modifiers = DefaultModifiers /\ iterations = 0
    /\ outcomes = <<>>
    /\ values \in UNION { [1..n -> 1..MaxValue] : n \in 0..MaxValues }
                    \cup { <<1, 2, 3, 4, 5>> }
    /\ percent \in Percents
    /\ pc = "call"
    /\ RunEntered /\ NoTrial /\ DiceIdle
    /\ ret = None

CallPercentile ==
    /\ pc = "call"
    /\ ret' = Some(percentile(values, percent))
    /\ pc' = "returned"
    /\ UNCHANGED <<inputs, accumulators, error, attack_vars, dice_vars>>

SpecPercentile == InitPercentile /\ [][CallPercentile]_vars


\* ================================================================== claims

\* C1: for all strengths and toughnesses >= 0, calculate_wound_target returns
\* the first matching row of the table: 2 when strength >= 2*toughness, else 3
\* when strength > toughness, else 4 when they are equal, else 6 when
\* 2*strength <= toughness, else 5; (8,4) gives 2, (5,4) gives 3, (4,4) gives
\* 4, (3,4) gives 5, (2,4) gives 6; the result is always one of 2..6.
C1_WoundTable ==
    pc = "returned" =>
      LET s == weapon.strength
          t == defender.toughness
          row1 == s >= 2 * t
          row2 == ~row1 /\ s > t
          row3 == ~row1 /\ ~row2 /\ s = t
          row4 == ~row1 /\ ~row2 /\ ~row3 /\ 2 * s <= t
          row5 == ~row1 /\ ~row2 /\ ~row3 /\ ~row4
          r == Val(ret)
      IN /\ ret # None
         /\ r \in 2..6
         /\ row1 => r = 2
         /\ row2 => r = 3
         /\ row3 => r = 4
         /\ row4 => r = 6
         /\ row5 => r = 5
         /\ (s = 8 /\ t = 4) => r = 2
         /\ (s = 5 /\ t = 4) => r = 3
         /\ (s = 4 /\ t = 4) => r = 4
         /\ (s = 3 /\ t = 4) => r = 5
         /\ (s = 2 /\ t = 4) => r = 6

\* calculate_wound_target(2, 4) has returned 6.
C1_Witness ==
    pc = "returned" /\ weapon.strength = 2 /\ defender.toughness = 4 /\ ret = Some(6)

\* C2: the effective save is armour - (weapon ap + ap modifier), lowered to
\* the invulnerable value when one is present and smaller, clamped into 2..6;
\* the attack is saved exactly when the save roll reaches it.  So a roll of 6
\* always saves, a roll of 1 never does (armour 2 with penetration -10 and
\* armour 7 with penetration 0 both need a 6), and with an invulnerable value
\* v in 2..6 every roll >= v saves whatever the penetration is.
C2_EffectiveSave ==
    pc # "save" =>
      LET penetration == weapon.ap + modifiers.ap_modifier
          armour_save == defender.save.armour - penetration
          inv         == defender.save.invulnerable
          smaller     == IF inv # None /\ Val(inv) < armour_save
                         THEN Val(inv) ELSE armour_save
          effective   == IF smaller < 2 THEN 2 ELSE IF smaller > 6 THEN 6 ELSE smaller
          saved       == unsaved = 0 /\ pc = "attack" /\ stats.failed_saves = 0
          not_saved   == unsaved = raw_damage /\ pc = "fnp" /\ stats.failed_saves = 1
      IN /\ raw_damage >= 1
         /\ roll >= effective => saved
         /\ roll < effective => not_saved
         /\ roll = 6 => saved
         /\ roll = 1 => not_saved
         /\ (defender.save.armour = 2 /\ penetration = -10 /\ inv = None) =>
              (saved <=> roll = 6)
         /\ (defender.save.armour = 7 /\ penetration = 0 /\ inv = None) =>
              (saved <=> roll = 6)
         /\ (inv # None /\ Val(inv) \in 2..6 /\ roll >= Val(inv)) => saved

\* Armour 7 against penetration 0, no invulnerable save: a save roll of 6 has
\* saved the attack.
C2_Witness ==
    /\ pc = "attack" /\ roll = 6 /\ unsaved = 0
    /\ defender.save.armour = 7 /\ defender.save.invulnerable = None
    /\ weapon.ap + modifiers.ap_modifier = 0


\* Some keyword of the weapon is "lethal hits" when letter case is ignored.
CarriesLethalHits ==
    \E i \in 1..Len(weapon.keywords) :
       /\ Len(weapon.keywords[i]) = Len(LethalHits)
       /\ \A j \in 1..Len(LethalHits) : LowerChar(weapon.keywords[i][j]) = LethalHits[j]

\* The labels of the dice calls made so far by the attack in progress.
Drawn == {drawn[i] : i \in 1..Len(drawn)}

\* C3: in resolve_attack, when an attack enters the wound phase with a
\* critical hit (unmodified hit roll >= the crit-hit threshold) and the weapon
\* carries "lethal hits" in any letter case, the wound phase succeeds, adds
\* one wound and one critical wound, draws no wound die and is not affected
\* by the wound modifier or the wound threshold.
C3_LethalHits ==
    /\ [][(pc = "wound" /\ crit_hit /\ CarriesLethalHits) =>
            /\ pc' = "damage"
            /\ success_wound' /\ crit_wound'
            /\ stats' = [stats EXCEPT !.wounds = @ + 1, !.crit_wounds = @ + 1]
            /\ roll' = roll /\ drawn' = drawn]_vars
    /\ [](pc = "wound" =>
            success_hit /\ (crit_hit <=> roll >= modifiers.crit_hit_threshold))
    /\ []((success_hit /\ crit_hit /\ CarriesLethalHits /\ pc # "wound") =>
            success_wound /\ crit_wound /\ "wound" \notin Drawn)

\* A critical hit with an upper-case "LETHAL HITS" keyword has wounded without
\* a wound die although no wound roll could succeed: strength 2 against
\* toughness 4 needs a 6 and the wound modifier is -1.
C3_Witness ==
    /\ pc = "damage" /\ crit_hit /\ success_wound /\ crit_wound
    /\ drawn = <<"hit">>
    /\ Len(weapon.keywords) = 2
    /\ weapon.strength = 2 /\ defender.toughness = 4
    /\ modifiers.wound_modifier = -1
    /\ stats.wounds = 1 /\ stats.crit_wounds = 1


\* C4: in run_simulation the trial-kill counter grows only when a trial's
\* outcome is added, by 1 when at least one attack of the trial met the kill
\* threshold (however many did) and by 0 otherwise; so 0 <= kills <= trials
\* executed, and for iterations N >= 1 the returned kills lie in 0..N, which
\* is kills / N in [0, 1].
C4_TrialKill ==
    /\ [][/\ pc = "return" => total_kills' = total_kills + (IF kills >= 1 THEN 1 ELSE 0)
          /\ pc # "return" => total_kills' = total_kills]_vars
    /\ [](0 <= total_kills /\ total_kills <= Len(damage_rolls))
    /\ []((pc = "done" /\ iterations >= 1) =>
            /\ Val(result).kills = total_kills
            /\ 0 <= Val(result).kills
            /\ Val(result).kills <= Val(result).iterations)

\* A one-trial run in which both attacks killed (damage 2 against 2 wounds, no
\* feel-no-pain, two failed saves) has returned one kill.
C4_Witness ==
    /\ pc = "done" /\ iterations = 1
    /\ defender.save.feel_no_pain = None /\ defender.wounds = 2
    /\ weapon.damage = <<"2">>
    /\ Val(result).stats.failed_saves = 2
    /\ Val(result).kills = 1

\* C5: for every iteration count N >= 1 the returned damage sequence has
\* exactly N elements, its i-th element is the total damage of the i-th trial
\* executed (each trial's total is put at the end when the trial returns and
\* the sequence changes at no other step), and the iterations field is N.
C5_DamageSequence ==
    /\ [][/\ pc = "return" => damage_rolls' = Append(damage_rolls, total_damage)
          /\ pc # "return" => damage_rolls' = damage_rolls]_vars
    /\ []((pc = "done" /\ iterations >= 1) =>
            /\ Val(result).damage_distribution = damage_rolls
            /\ Len(Val(result).damage_distribution) = iterations
            /\ Val(result).iterations = iterations)

\* A two-trial run has returned the damage sequence 4, 0: the first trial's
\* total first.
C5_Witness ==
    /\ pc = "done" /\ iterations = 2
    /\ Val(result).damage_distribution = <<4, 0>>

\* C6: an attack is recorded as a kill exactly when that attack's own final
\* (post-mitigation) damage is >= the defender's wounds; damage is not summed
\* across attacks for the kill check, and the trial's total damage grows by
\* each unsaved attack's final damage and by nothing else.
C6_KillCheck ==
    /\ [][/\ pc = "tally" =>
               /\ kills' = IF final_damage >= defender.wounds THEN kills + 1 ELSE kills
               /\ total_damage' = total_damage + final_damage
          /\ pc \notin {"tally", "return"} =>
               kills' = kills /\ total_damage' = total_damage]_vars
    /\ [](pc = "tally" =>
            /\ unsaved = raw_damage /\ unsaved >= 1
            /\ final_damage = unsaved - prevented
            /\ (defender.save.feel_no_pain = None => prevented = 0))

\* A trial returns with total damage 2 against 2 wounds from two unsaved
\* attacks of 1 damage each, and no kill.
C6_Witness ==
    /\ pc = "return" /\ kills = 0
    /\ defender.wounds = 2 /\ total_damage = 2
    /\ stats.failed_saves = 2


\* C7: when the text, trimmed and lower-cased, is a pure digit string, every
\* call of roll returns exactly that integer and draws no random number.
C7_Literal ==
    LET c == Lower(Strip(raw)) IN
    IsDigit(c) =>
      /\ dpc \in {"call", "returned"}
      /\ rolls = <<>>
      /\ dpc = "returned" => ret = Some(ParseDigits(c))
      /\ (dpc = "returned" /\ raw = <<" ", "1", "2", " ">>) => ret = Some(12)
      /\ (dpc = "returned" /\ raw = <<"0", "6">>) => ret = Some(6)

\* The text " 12 " has returned 12 on its second call, no number drawn.
C7_Witness ==
    /\ dpc = "returned" /\ calls = 2 /\ raw = <<" ", "1", "2", " ">>
    /\ ret = Some(12) /\ rolls = <<>>

\* What C8 says of a returned call: count draws, each in 1..faces, their sum
\* plus the modifier returned.
DrawsAndSum(p) ==
    dpc = "returned" =>
      /\ Len(rolls) = p.count
      /\ \A i \in 1..Len(rolls) : rolls[i] >= 1 /\ rolls[i] <= p.faces
      /\ ret = Some(SumSeq(rolls) + p.modifier)
      /\ Val(ret) >= p.count + p.modifier
      /\ Val(ret) <= p.count * p.faces + p.modifier

\* C8 as stated: for every text that matches [count]d[faces][+/-modifier],
\* roll draws exactly count integers each in [1, faces] and returns their sum
\* plus modifier.
C8_Original ==
    LET p == ParseDice(raw) IN
    p.kind = "dice" => dpc # "raised" /\ DrawsAndSum(p)

\* C8, amended: for a text that matches [count]d[faces][+/-modifier] (count 1
\* when omitted, modifier 0 when omitted, any letter case) with faces >= 1 or
\* count = 0, roll draws exactly count integers each in [1, faces] and returns
\* their sum plus modifier, a value of [count + modifier, count*faces +
\* modifier]; "2d6+1" returns a value of [3, 13].  With faces = 0 and
\* count >= 1 roll returns nothing: its first draw raises ValueError.
C8_Amended ==
    LET p == ParseDice(raw) IN
    /\ p.kind = "dice" =>
         /\ (p.faces >= 1 \/ p.count = 0) => dpc # "raised" /\ DrawsAndSum(p)
         /\ (p.faces = 0 /\ p.count >= 1 /\ dpc \notin {"call", "loop"}) =>
              dpc = "raised" /\ rolls = <<>> /\ ret = None
    /\ raw = <<"2", "d", "6", "+", "1">> =>
         /\ p.kind = "dice" /\ p.count = 2 /\ p.faces = 6 /\ p.modifier = 1
         /\ dpc = "returned" => Val(ret) >= 3 /\ Val(ret) <= 13
    /\ raw = <<" ", "D", "6">> =>
         /\ p.kind = "dice" /\ p.count = 1 /\ p.faces = 6 /\ p.modifier = 0
         /\ dpc = "returned" => Len(rolls) = 1 /\ Val(ret) \in 1..6

\* "2d6+1" has returned 13 from the two draws 6 and 6.
C8_Witness ==
    /\ dpc = "returned" /\ raw = <<"2", "d", "6", "+", "1">>
    /\ rolls = <<6, 6>> /\ ret = Some(13)

\* C9 as stated: every value roll returns is a non-negative integer.
C9_Original == dpc = "returned" => Val(ret) \in Nat

\* C9, amended: every value roll returns is an integer; it is the literal, or
\* at least count + modifier, so it is non-negative whenever the text is a
\* literal or count + modifier >= 0, and can be negative only when the
\* modifier is below -count.
C9_Amended ==
    LET p == ParseDice(raw) IN
    dpc = "returned" =>
      /\ ret # None /\ Val(ret) \in Int
      /\ p.kind # "invalid"
      /\ p.kind = "literal" => Val(ret) >= 0
      /\ p.kind = "dice" => Val(ret) >= p.count + p.modifier
      /\ (p.kind = "dice" /\ p.count + p.modifier >= 0) => Val(ret) >= 0
      /\ Val(ret) < 0 => p.kind = "dice" /\ p.modifier < 0 - p.count

\* "2d1-2" has returned 0, the least value its count and modifier allow.
C9_Witness ==
    /\ dpc = "returned" /\ raw = <<"2", "d", "1", "-", "2">> /\ ret = Some(0)


\* The text is neither a digit string nor a match of the dice pattern.
InvalidText(text) ==
    LET c == Lower(Strip(text)) IN ~IsDigit(c) /\ DicePattern(c) = None

\* C10 as stated: if the attacks expression or the damage expression is an
\* invalid dice text, no trial completes and run_simulation with
\* iterations >= 1 returns no result, whatever the die rolls are.
C10_Original ==
    ((InvalidText(weapon.attacks) \/ InvalidText(weapon.damage)) /\ iterations >= 1) =>
      pc \notin {"return", "done"} /\ result = None

\* C10, amended: if the attacks expression is invalid, every trial ends in the
\* error and run_simulation with iterations >= 1 ends in it on its first trial
\* with no result, whatever the die rolls are.  If only the damage expression
\* is invalid, the error is raised where the damage expression is evaluated,
\* that is for the first attack that hits and wounds: that trial and the run
\* end in the error with no result and nothing runs after it; a trial in which
\* no attack wounds completes normally, and a run of such trials returns a
\* SimulationResult.
C10_Amended ==
    /\ []((InvalidText(weapon.attacks) /\ iterations >= 1) =>
            pc \in {"loop", "raised"} /\ damage_rolls = <<>> /\ result = None)
    /\ [][(pc = "loop" /\ InvalidText(weapon.attacks) /\ Len(damage_rolls) < iterations) =>
            pc' = "raised"]_vars
    /\ [](InvalidText(weapon.damage) =>
            /\ pc \notin {"save", "fnp", "tally"}
            /\ stats.wounds >= 1 => pc \in {"damage", "raised"}
            /\ aggregate_stats.wounds = 0
            /\ pc = "done" => Val(result).stats.wounds = 0)
    /\ [][(pc = "damage" /\ InvalidText(weapon.damage)) => pc' = "raised"]_vars
    /\ [](pc = "raised" =>
            /\ result = None /\ error = "ValueError"
            /\ InvalidText(weapon.attacks) \/ InvalidText(weapon.damage))
    /\ [][pc # "raised"]_vars

\* With an invalid damage text the first trial has completed (no attack of it
\* wounded) and the second has ended in the error, no result returned.
C10_Witness ==
    /\ pc = "raised" /\ InvalidText(weapon.damage) /\ ~InvalidText(weapon.attacks)
    /\ Len(damage_rolls) = 1 /\ result = None

\* ---------------------------------------------------------------- C11
\* How often a damage value occurs in a sequence of damage values.
DamageBag(damages) ==
    [d \in {damages[i] : i \in 1..Len(damages)} |->
        Cardinality({i \in 1..Len(damages) : damages[i] = d})]

\* The counters and the kill count of two runs summed.
SumOfRuns(a, b) ==
    [total_kills |-> a.total_kills + b.total_kills,
     hits         |-> a.aggregate_stats.hits + b.aggregate_stats.hits,
     crit_hits    |-> a.aggregate_stats.crit_hits + b.aggregate_stats.crit_hits,
     wounds       |-> a.aggregate_stats.wounds + b.aggregate_stats.wounds,
     crit_wounds  |-> a.aggregate_stats.crit_wounds + b.aggregate_stats.crit_wounds,
     failed_saves |-> a.aggregate_stats.failed_saves + b.aggregate_stats.failed_saves]

\* The counters and the kill count of the run in progress.
RunCounters ==
    [total_kills  |-> total_kills,
     hits         |-> aggregate_stats.hits,
     crit_hits    |-> aggregate_stats.crit_hits,
     wounds       |-> aggregate_stats.wounds,
     crit_wounds  |-> aggregate_stats.crit_wounds,
     failed_saves |-> aggregate_stats.failed_saves]

\* C11: the aggregated statistics are the element-wise sums of the per-trial
\* statistics, and the aggregation is an additive reduction: for the same
\* per-trial outcomes, a run of N1 trials and a run of N2 trials, summed in
\* either order, give the five counters and the kill count of one run of
\* N1 + N2 trials, and the damage sequences agree as multisets.
C11_AdditiveReduction ==
    LET n == Len(damage_rolls) IN
    /\ \A f \in DOMAIN aggregate_stats :
         aggregate_stats[f] = SumSeq([i \in 1..n |-> outcomes[i].stats[f]])
    /\ \A k \in 0..n :
         LET first  == RunLoop(SubSeq(outcomes, 1, k))
             second == RunLoop(SubSeq(outcomes, k + 1, n))
         IN /\ SumOfRuns(first, second) = RunCounters
            /\ SumOfRuns(second, first) = RunCounters
            /\ DamageBag(first.damage_rolls \o second.damage_rolls)
                 = DamageBag(damage_rolls)
            /\ DamageBag(second.damage_rolls \o first.damage_rolls)
                 = DamageBag(damage_rolls)

\* A run of three trials, two of them with hits, split after its first trial.
C11_Witness ==
    /\ pc = "accumulate"
    /\ Len(damage_rolls) = 3
    /\ outcomes[1].stats.hits > 0 /\ outcomes[3].stats.hits > 0
    /\ outcomes[1] # outcomes[3]
    /\ aggregate_stats.hits = outcomes[1].stats.hits + outcomes[2].stats.hits
                                + outcomes[3].stats.hits

\* ---------------------------------------------------------------- C12
RECURSIVE MinOf(_)
MinOf(s) == IF Len(s) = 1 THEN s[1] ELSE Min(Head(s), MinOf(Tail(s)))

RECURSIVE MaxOf(_)
MaxOf(s) == IF Len(s) = 1 THEN s[1] ELSE Max(Head(s), MaxOf(Tail(s)))

\* The sequences that hold the same values in another order.
Reorderings(s) ==
    { [i \in 1..Len(s) |-> s[f[i]]] : f \in Permutations(1..Len(s)) }

\* A hundred times the exact linear interpolation of the ascending values at
\* the index (len - 1) * pct / 100: an integer.
Interpolation100(vals, pct) ==
    LET n     == Len(vals)
        least == CHOOSE o \in Reorderings(vals) : \A i \in 1..(n - 1) : o[i] <= o[i + 1]
        lower == ((n - 1) * pct) \div 100
        upper == Min(lower + 1, n - 1)
        part  == ((n - 1) * pct) % 100
    IN 100 * least[lower + 1] + (least[upper + 1] - least[lower + 1]) * part

\* The float x is within t units of 2^-60 of the integer e100 / 100.
NearInterpolation(x, e100, t) ==
    LET d == FloatNorm(100 * x[1] - e100 * Limb, 100 * x[2], 100 * x[3])
    IN \/ d[1] = 0 /\ d[2] <= 1 /\ d[2] * Limb + d[3] <= 100 * t
       \/ d[1] = -1 /\ d[2] >= Limb - 2 /\ (Limb - d[2]) * Limb - d[3] <= 100 * t

\* 2^-52 times n, in units of 2^-60.
Epsilon(n) == 256 * n

\* What percentile returns for an empty sequence, at the two end percents,
\* for every order of the values and for [1, 2, 3, 4, 5]; and that it returns
\* the interpolation up to the rounding of float arithmetic.
C12_Interpolation ==
    LET r == Val(ret) IN
    /\ values = <<>> => r = FloatOfInt(0)
    /\ values # <<>> =>
         /\ NearInterpolation(r, Interpolation100(values, percent),
                              Epsilon(Len(values) * MaxOf(values)))
         /\ percent = 0 => r = FloatOfInt(MinOf(values))
         /\ percent = 100 => r = FloatOfInt(MaxOf(values))
         /\ \A o \in Reorderings(values) : percentile(o, percent) = r
    /\ values = <<1, 2, 3, 4, 5>> =>
         /\ percent = 50 => r = FloatOfInt(3)
         /\ percent = 0 => r = FloatOfInt(1)
         /\ percent = 100 => r = FloatOfInt(5)

\* C12 as stated: percentile(values, p) for p in [0,100] returns 0.0 for an
\* empty sequence and otherwise the linear interpolation of the sorted values
\* at index (len-1)*p/100; p = 0 gives the minimum, p = 100 the maximum, the
\* result does not depend on the input order and always lies between the
\* minimum and the maximum; [1,2,3,4,5] gives 3, 1 and 5 at 50, 0 and 100.
C12_Original ==
    pc = "returned" =>
      /\ C12_Interpolation
      /\ values # <<>> =>
           /\ FloatLeq(FloatOfInt(MinOf(values)), Val(ret))
           /\ FloatLeq(Val(ret), FloatOfInt(MaxOf(values)))

\* ---------------------------------------------------------------- C14
\* C14: within each attack the phases run in the order hit, wound, save,
\* damage, mitigation, kill check: the damage expression is evaluated only
\* after the save die has been drawn and the save has failed, and an attack
\* whose save roll succeeds has evaluated no damage expression, so it cannot
\* end in a damage-expression error.
C14_SaveBeforeDamage ==
    /\ \A i \in 1..Len(drawn) :
         drawn[i] = "damage" =>
           /\ \E j \in 1..(i - 1) : drawn[j] = "save"
           /\ unsaved # 0
    /\ (pc = "raised" /\ attack > 0) => "save" \in Drawn

\* ---------------------------------------------------------------- C15
\* The tallies of the trial: the statistics, the damage and the kills.
Tallies == <<stats, total_damage, kills>>

\* C15: a failed hit ends the attack: the hit die is the only die drawn for
\* it and no tally changes; a failed wound ends the attack with the hit and
\* the wound die as its only dice and no tally changed by the wound phase, the
\* hit phase having added to hits and critical hits only; once an attack has
\* ended no die is drawn and no tally changes before the next attack starts.
C15_FailedPhaseEnds ==
    /\ [][(pc = "hit" /\ ~success_hit') =>
            /\ pc' = "attack"
            /\ drawn' = <<"hit">>
            /\ UNCHANGED Tallies]_vars
    /\ [][(pc = "hit" /\ success_hit') =>
            /\ stats'.wounds = stats.wounds
            /\ stats'.crit_wounds = stats.crit_wounds
            /\ stats'.failed_saves = stats.failed_saves
            /\ UNCHANGED <<total_damage, kills>>]_vars
    /\ [][(pc = "wound" /\ ~success_wound') =>
            /\ pc' = "attack"
            /\ drawn' = <<"hit", "wound">>
            /\ UNCHANGED Tallies]_vars
    /\ [][pc = "attack" => (drawn' = <<>> /\ UNCHANGED Tallies)]_vars

\* The second attack of a trial has failed to wound after the first one
\* missed: one hit tallied and nothing else.
C15_Witness ==
    /\ pc = "attack" /\ attack = 2
    /\ drawn = <<"hit", "wound">>
    /\ success_hit /\ ~success_wound
    /\ stats.hits = 1 /\ stats.wounds = 0 /\ total_damage = 0 /\ kills = 0

\* ---------------------------------------------------------------- C16
\* C16: in the hit and the wound phase the critical flag is decided by the
\* unmodified roll alone (roll >= the crit threshold) and success by the
\* modified roll alone (roll + modifier >= the skill, resp. the wound
\* target), so a modifier never changes whether a roll is critical; a
\* critical hit is tallied only when the attack also hits, and only a hit
\* reaches the wound phase, where lethal hits can act.
C16_CriticalAndSuccess ==
    /\ [][pc = "hit" =>
            /\ crit_hit' <=> roll' >= modifiers.crit_hit_threshold
            /\ success_hit' <=> roll' + modifiers.hit_modifier >= weapon.skill
            /\ stats'.hits = stats.hits + (IF success_hit' THEN 1 ELSE 0)
            /\ stats'.crit_hits = stats.crit_hits
                                    + (IF success_hit' /\ crit_hit' THEN 1 ELSE 0)
            /\ pc' = "wound" <=> success_hit']_vars
    /\ [][(pc = "wound" /\ drawn' # drawn) =>
            /\ crit_wound' <=> roll' >= modifiers.crit_wound_threshold
            /\ success_wound' <=>
                 roll' + modifiers.wound_modifier
                   >= calculate_wound_target(weapon.strength, defender.toughness)
            /\ stats'.wounds = stats.wounds + (IF success_wound' THEN 1 ELSE 0)
            /\ stats'.crit_wounds = stats.crit_wounds
                                      + (IF success_wound' /\ crit_wound' THEN 1 ELSE 0)]_vars
    /\ [](pc = "wound" => success_hit)

\* A critical roll that the hit modifier turned into a miss, for a weapon
\* with lethal hits: critical, not tallied, no wound phase.
C16_Witness ==
    /\ pc = "attack" /\ attack = 1 /\ drawn = <<"hit">>
    /\ roll = 6 /\ modifiers.hit_modifier = -1 /\ weapon.skill = 6
    /\ crit_hit /\ ~success_hit
    /\ stats = ZeroStats
    /\ CarriesLethalHits

\* ---------------------------------------------------------------- C17
\* The values the damage expression of the weapon can return: the literal,
\* or any sum of count dice of 1..faces plus the modifier.
DamageResults ==
    LET p == ParseDice(weapon.damage) IN
    IF p.kind = "literal" THEN {p.value}
    ELSE IF p.kind = "dice" /\ (p.count = 0 \/ p.faces >= 1)
         THEN (p.count + p.modifier)..(p.count * p.faces + p.modifier)
         ELSE {}

\* C17: for every attack that hits, wounds and is not saved, the damage that
\* enters mitigation is max(1, rolled damage + damage modifier), at least 1
\* whatever the expression returned (zero and negative results included) and
\* whatever the modifier; without feel no pain each such attack adds at least
\* 1 to the total damage, and between attacks the total damage is at least
\* the number of failed saves.
C17_DamageAtLeastOne ==
    /\ [][(pc = "damage" /\ pc' = "save") =>
            \E d \in DamageResults :
               raw_damage' = IF d + modifiers.damage_modifier >= 1
                             THEN d + modifiers.damage_modifier ELSE 1]_vars
    /\ [](pc = "fnp" => (unsaved = raw_damage /\ unsaved >= 1))
    /\ [][(pc = "tally" /\ ~Truthy(defender.save.feel_no_pain)) =>
            total_damage' >= total_damage + 1]_vars
    /\ []((pc \in {"attack", "return"} /\ ~Truthy(defender.save.feel_no_pain)) =>
            total_damage >= stats.failed_saves)

\* A trial of two unsaved attacks whose damage expression returned 0 or -1
\* and whose modifier is -1: each of them dealt 1.
C17_Witness ==
    /\ pc = "return"
    /\ weapon.damage = <<"D", "2", "-", "2">>
    /\ modifiers.damage_modifier = -1
    /\ ~Truthy(defender.save.feel_no_pain)
    /\ stats.failed_saves = 2 /\ total_damage = 2

\* ---------------------------------------------------------------- C18
\* The feel-no-pain dice drawn so far by the attack in progress.
FnpDice == Cardinality({i \in 1..Len(drawn) : drawn[i] = "fnp"})

\* C18: with a threshold t, apply_feel_no_pain(damage, t) draws exactly
\* damage dice, prevents a point exactly when its die is >= t and returns the
\* points not prevented, between 0 and damage; with no threshold it draws no
\* die and returns the damage unchanged.
C18_FeelNoPain ==
    /\ [][(pc = "fnp" /\ drawn' # drawn) =>
            /\ Truthy(defender.save.feel_no_pain)
            /\ drawn' = Append(drawn, "fnp")
            /\ FnpDice < unsaved
            /\ prevented' = prevented
                 + (IF roll' >= Val(defender.save.feel_no_pain) THEN 1 ELSE 0)]_vars
    /\ [][(pc = "fnp" /\ pc' = "tally") =>
            IF Truthy(defender.save.feel_no_pain)
            THEN /\ FnpDice = unsaved
                 /\ final_damage' = unsaved - prevented
                 /\ final_damage' \in 0..unsaved
            ELSE /\ FnpDice = 0
                 /\ final_damage' = unsaved]_vars
    /\ [](pc = "fnp" => (prevented <= FnpDice /\ FnpDice <= unsaved))

\* Two points of damage against a threshold of 5: two dice drawn, one point
\* prevented, one returned.
C18_Witness ==
    /\ pc = "tally"
    /\ defender.save.feel_no_pain = Some(5)
    /\ unsaved = 2 /\ FnpDice = 2 /\ prevented = 1 /\ final_damage = 1

\* ---------------------------------------------------------------- C19
\* The save dice drawn so far by the attack in progress.
SaveDice == Cardinality({i \in 1..Len(drawn) : drawn[i] = "save"})

\* C19: failed_saves is incremented exactly once for each attack that hit,
\* wounded and whose save roll was below the effective save, and for no
\* other attack: within a trial the counter changes only in the save step
\* of such an attack, by one; every save step with a roll below the
\* effective save changes it; an attack has at most one save step.
C19_FailedSaves ==
    /\ [][(pc # "return" /\ stats'.failed_saves # stats.failed_saves) =>
            /\ pc = "save" /\ success_hit /\ success_wound
            /\ roll' < EffectiveSave(defender.save, weapon.ap + modifiers.ap_modifier)
            /\ stats'.failed_saves = stats.failed_saves + 1]_vars
    /\ [][(pc = "save"
             /\ roll' < EffectiveSave(defender.save, weapon.ap + modifiers.ap_modifier)) =>
            stats'.failed_saves = stats.failed_saves + 1]_vars
    /\ [][pc = "save" => (SaveDice = 0 /\ SaveDice' = 1)]_vars
    /\ [](SaveDice <= 1)

\* The second attack of a trial has failed its save after the first one was
\* saved: two wounds, one failed save.
C19_Witness ==
    /\ pc = "fnp" /\ attack = 2
    /\ stats.wounds = 2 /\ stats.failed_saves = 1
    /\ roll < EffectiveSave(defender.save, weapon.ap + modifiers.ap_modifier)
    /\ unsaved >= 1

\* ---------------------------------------------------------------- C20
\* C20: in each trial the attack-count expression is evaluated once, before
\* any attack, and its value is not changed while the attacks run; every
\* attack that starts draws one hit die, and when the trial returns the
\* attacks started number the attack count when it is positive and zero when
\* it is zero or negative, in which case the damage, the kills and the five
\* counters are all zero.
C20_AttackCount ==
    /\ [][pc = "loop" => (attack = 0 /\ drawn = <<>> /\ stats = ZeroStats)]_vars
    /\ [][pc \notin {"loop", "return"} => attack_count' = attack_count]_vars
    /\ [][(pc # "return" /\ attack' # attack) =>
            (pc = "attack" /\ pc' = "hit" /\ attack' = attack + 1
               /\ attack' <= attack_count)]_vars
    /\ [][pc = "hit" => (drawn = <<>> /\ drawn' = <<"hit">>)]_vars
    /\ [](pc = "return" =>
            /\ attack = IF attack_count > 0 THEN attack_count ELSE 0
            /\ attack_count <= 0 =>
                 (total_damage = 0 /\ kills = 0 /\ stats = ZeroStats))

\* A trial whose attack-count expression returned -1 has returned without
\* an attack.
C20_Witness ==
    /\ pc = "return"
    /\ attack_count = -1 /\ attack = 0
    /\ total_damage = 0 /\ kills = 0 /\ stats = ZeroStats

\* ---------------------------------------------------------------- C21
\* The error of a text that matches neither form.
InvalidExpression == "Unsupported dice expression"

\* roll fails with the invalid-expression error exactly on the texts that,
\* trimmed and lower-cased, are neither a digit string nor a match of the
\* pattern; what it returns is an integer; it never changes the stored text.
C21_InvalidExactly ==
    /\ [](error = InvalidExpression <=> (InvalidText(raw) /\ dpc = "raised"))
    /\ [][(dpc = "call" /\ InvalidText(raw)) => dpc' = "raised"]_vars
    /\ [](dpc = "returned" => (ret # None /\ Val(ret) \in Int))
    /\ [][raw' = raw]_vars

\* C21 as stated: roll fails with the invalid-expression error if and only
\* if the trimmed, lower-cased text is neither a digit string nor a match of
\* (count)?d(faces)(modifier)?; every text that matches one of the two forms
\* evaluates to an integer without error; a failing call leaves the
\* expression unchanged.
C21_Original ==
    /\ C21_InvalidExactly
    /\ [](~InvalidText(raw) => dpc # "raised")

\* C21, amended: as stated, except that a matching dice text with faces = 0
\* and count >= 1 does not evaluate: its first draw fails with the empty-range
\* error of random.randint(1, 0), not with the invalid-expression error.
\* Every other matching text evaluates to an integer without error.
C21_Amended ==
    /\ C21_InvalidExactly
    /\ [](~InvalidText(raw) =>
            LET p == ParseDice(raw) IN
            /\ dpc = "raised" =>
                 /\ p.kind = "dice" /\ p.faces = 0 /\ p.count >= 1
                 /\ error = "empty range for randrange"
                 /\ rolls = <<>> /\ ret = None
            /\ (p.kind = "dice" /\ p.faces = 0 /\ p.count >= 1) => dpc # "returned")

\* The text "2d " matches neither form: its call has failed with the
\* invalid-expression error and the text is as it was.
C21_Witness ==
    /\ dpc = "raised" /\ calls = 1
    /\ raw = <<"2", "d", " ">>
    /\ error = InvalidExpression /\ ret = None

\* ---------------------------------------------------------------- C22
\* C22: resolve_attack and run_simulation treat their inputs as read-only:
\* no step of a trial changes the attacker, the weapon (its attack and damage
\* texts and its keyword list included), the defender (its save profile
\* included) or the modifiers; evaluating the attack or the damage expression
\* leaves its stored text as it was.
C22_InputsReadOnly ==
    [][/\ attacker' = attacker
       /\ weapon' = weapon
       /\ defender' = defender
       /\ modifiers' = modifiers
       /\ iterations' = iterations]_vars

\* A trial has returned its result after evaluating " D3-2" for the attack
\* count and "D2-2" for the damage of a wounding attack; both texts and the
\* upper-case keyword are as they were given.
C22_Witness ==
    /\ pc = "done"
    /\ weapon.attacks = <<" ", "D", "3", "-", "2">>
    /\ weapon.damage = <<"D", "2", "-", "2">>
    /\ \E i \in 1..Len(weapon.keywords) : weapon.keywords[i] # Lower(weapon.keywords[i])
    /\ Val(result).stats.wounds = 1

\* ---------------------------------------------------------------- C23
\* The order the five counters keep among themselves, none below zero.
CountersOrdered(s) ==
    /\ 0 <= s.crit_hits /\ s.crit_hits <= s.hits
    /\ 0 <= s.crit_wounds /\ s.crit_wounds <= s.wounds
    /\ s.wounds <= s.hits
    /\ 0 <= s.failed_saves /\ s.failed_saves <= s.wounds

\* No counter of s is below its value in t.
CountersNotBelow(s, t) == \A f \in DOMAIN s : s[f] >= t[f]

\* The attacks of one trial when the attack text is a literal.
AttacksPerTrial == ParseDice(weapon.attacks).value

\* C23: after every attack of every trial, and in the aggregated statistics
\* after every trial, crit_hits <= hits, crit_wounds <= wounds <= hits,
\* failed_saves <= wounds and hits <= the attacks resolved so far; the five
\* counters and every per-trial damage total are >= 0 and never decrease.
C23_CounterOrder ==
    /\ [](/\ CountersOrdered(stats)
          /\ stats.hits <= attack
          /\ total_damage >= 0)
    /\ [](/\ CountersOrdered(aggregate_stats)
          /\ ParseDice(weapon.attacks).kind = "literal" =>
               aggregate_stats.hits <= Len(damage_rolls) * AttacksPerTrial
          /\ \A i \in 1..Len(damage_rolls) : damage_rolls[i] >= 0)
    /\ [][pc # "return" =>
            (CountersNotBelow(stats', stats) /\ total_damage' >= total_damage)]_vars
    /\ [][/\ CountersNotBelow(aggregate_stats', aggregate_stats)
          /\ total_kills' >= total_kills]_vars

\* Two trials of two attacks are aggregated: three hits out of four attacks,
\* one of them critical, two wounds, one failed save.
C23_Witness ==
    /\ pc = "loop" /\ Len(damage_rolls) = 2
    /\ aggregate_stats = [hits |-> 3, crit_hits |-> 1, wounds |-> 2,
                          crit_wounds |-> 1, failed_saves |-> 1]

\* The result of a run of no trial: nothing rolled, nothing counted.
EmptyResult ==
    [attacker            |-> attacker.name,
     defender            |-> defender.name,
     weapon              |-> weapon.name,
     iterations          |-> 0,
     damage_distribution |-> <<>>,
     kills               |-> 0,
     stats               |-> ZeroStats]

\* C24: run_simulation called with iterations = 0 raises nothing and returns
\* at once a result with an empty damage sequence, zero kills and all-zero
\* statistics; percentile of that damage sequence is 0.0 for every
\* percentage, while reading average_damage or kill_probability of the
\* result raises ZeroDivisionError and returns nothing.
C24_ZeroIterations ==
    /\ [][(pc = "loop" /\ iterations = 0) =>
            (pc' = "done" /\ error' = "None" /\ result' = Some(EmptyResult))]_vars
    /\ []((pc = "done" /\ iterations = 0) =>
            \A p \in Percents :
                percentile(Val(result).damage_distribution, p) = FloatOfInt(0))
    /\ []((pc \in {"average_damage", "kill_probability"} /\ iterations = 0) =>
            (error = "ZeroDivisionError" /\ ret = None /\ result = Some(EmptyResult)))
    /\ []((pc \in {"average_damage", "kill_probability"} /\ iterations > 0) =>
            (error = "None" /\ ret # None))

\* The mean damage of a run of no trial has been read: the division failed.
C24_Witness ==
    /\ pc = "average_damage" /\ iterations = 0
    /\ Val(result).damage_distribution = <<>>
    /\ error = "ZeroDivisionError"

\* ---------------------------------------------------------------- C25
\* Both dice texts of the weapon are valid: evaluating them raises nothing.
ValidExpressions == ~RollRaises(weapon.attacks) /\ ~RollRaises(weapon.damage)

\* The dice of one kind drawn so far by the attack in progress.
DiceDrawn(kind) == Cardinality({i \in 1..Len(drawn) : drawn[i] = kind})

LargestOf(S) == CHOOSE m \in S : \A x \in S : x <= m

\* The most attacks a trial can make and the most damage an attack can roll.
AttackCap ==
    IF RollRaises(weapon.attacks) THEN 0
    ELSE Max(0, LargestOf(RollValues(weapon.attacks)))
DamageCap ==
    IF RollRaises(weapon.damage) THEN 0
    ELSE ClampDamage(LargestOf(RollValues(weapon.damage)) + modifiers.damage_modifier)

\* The most steps of one attack: the loop test, the hit, wound, damage and
\* save steps, a feel-no-pain die per point, its return and the tally.
AttackSteps == DamageCap + 7
\* The most steps of one trial: the attack count, the attacks, the last loop
\* test and the aggregation.
TrialSteps == AttackCap * AttackSteps + 3

\* An upper bound of the steps a run can still take from the position `at`
\* with `trials` trials aggregated, `done` attacks of the trial's `n`
\* started and `fnp` feel-no-pain dice of the attack drawn.
StepsAt(at, trials, n, done, fnp) ==
    LET TrialsLeft  == iterations - trials
        AttacksLeft == Max(0, n) - done
    IN CASE at = "loop"   -> TrialsLeft * TrialSteps + 2
         [] at = "return" -> (TrialsLeft - 1) * TrialSteps + 3
         [] at = "done"   -> 1
         [] at \in {"attack", "hit", "wound", "damage", "save", "fnp", "tally"} ->
              (TrialsLeft - 1) * TrialSteps + 4 + AttacksLeft * AttackSteps
                + (CASE at = "hit"    -> AttackSteps - 1
                     [] at = "wound"  -> AttackSteps - 2
                     [] at = "damage" -> AttackSteps - 3
                     [] at = "save"   -> AttackSteps - 4
                     [] at = "fnp"    -> AttackSteps - 5 - fnp
                     [] at = "tally"  -> 1
                     [] OTHER         -> 0)
         [] OTHER -> 0

StepsLeft == StepsAt(pc, Len(damage_rolls), attack_count, attack, fnp_rolls)

\* A step of the run that evaluates no dice text.
StepWithoutDiceText ==
    \/ NextAttack \/ RollToHit \/ Wound \/ ApplySave \/ FeelNoPain \/ Tally
    \/ Aggregate \/ Finish

\* C25: with valid dice texts and an iteration count N, run_simulation
\* raises nothing and terminates: every step lowers a non-negative bound of
\* the steps left, and until the result is returned the run is either about
\* to evaluate a valid dice text or has another step it can take; the result
\* is returned after exactly N trials, a trial returns after exactly
\* max(0, attack count) attacks, and an attack draws at most one hit die, one
\* wound die, one evaluation of the damage dice, one save die and one
\* feel-no-pain die per point of unsaved damage.
C25_Terminates ==
    /\ [](ValidExpressions => (StepsLeft >= 0 /\ pc # "raised" /\ error # "ValueError"))
    /\ [][ValidExpressions =>
            /\ weapon' = weapon /\ modifiers' = modifiers /\ iterations' = iterations
            /\ StepsAt(pc', Len(damage_rolls'), attack_count', attack', fnp_rolls')
                 < StepsLeft]_vars
    /\ []((ValidExpressions /\ result = None) =>
            \/ pc = "loop" /\ MoreTrials(Len(damage_rolls), iterations)
            \/ pc = "damage"
            \/ ENABLED StepWithoutDiceText)
    /\ [](ValidExpressions =>
            /\ Len(damage_rolls) <= iterations
            /\ pc = "done" =>
                 (Len(damage_rolls) = iterations
                    /\ Len(Val(result).damage_distribution) = iterations))
    /\ [][ValidExpressions =>
            Len(damage_rolls') \in {Len(damage_rolls), Len(damage_rolls) + 1}]_vars
    /\ [](ValidExpressions =>
            /\ attack <= Max(0, attack_count)
            /\ pc = "return" => attack = Max(0, attack_count))
    /\ [](ValidExpressions =>
            /\ DiceDrawn("hit") <= 1 /\ DiceDrawn("wound") <= 1
            /\ DiceDrawn("damage") <= 1 /\ DiceDrawn("save") <= 1
            /\ DiceDrawn("fnp") <= unsaved /\ unsaved <= raw_damage
            /\ Len(drawn) <= 4 + raw_damage)

\* A run of two trials of two attacks has returned after exactly two trials
\* in which every attack hit.
C25_Witness ==
    /\ pc = "done" /\ iterations = 2 /\ Len(damage_rolls) = 2
    /\ weapon.attacks = <<"2">>
    /\ Val(result).stats.hits = 4


====
